---- MODULE Spec2Model ----
(***************************************************************************)
(* Model of the item store of daijoubu-tidy: the AI provider adapter       *)
(* (src/services/ai.py), the item service (src/services/items.py), the     *)
(* request-scoped unit of work (src/core/database.py) and the relational   *)
(* schema (src/models, alembic/versions/001_initial.py).                   *)
(*                                                                         *)
(* Text is modelled as a sequence of one-character strings, so that        *)
(* strip(), lower() and SQL LIKE are computed character by character.      *)
(***************************************************************************)
EXTENDS Integers, Sequences, FiniteSets, TLC

VARIABLES apiKey, db, usedIds, sess, nreq, last, aiCall, answer,
          task_list_mapping, reactions

vars ==
    <<apiKey, db, usedIds, sess, nreq, last, aiCall, answer, task_list_mapping, reactions>>

(***************************************************************************)
(* Bounds of the model.                                                    *)
(***************************************************************************)
\* Requests started over one behaviour.
MaxReqs == 3

\* The commands and reaction events of the declutter cog a run has at most,
\* and the task lists it sends at most.
MaxTaskReqs == 4
MaxLists == 1

(***************************************************************************)
(* Text helpers.                                                           *)
(***************************************************************************)
Uppers == <<"A","B","C","D","E","F","G","H","I","J","K","L","M",
            "N","O","P","Q","R","S","T","U","V","W","X","Y","Z">>
Lowers == <<"a","b","c","d","e","f","g","h","i","j","k","l","m",
            "n","o","p","q","r","s","t","u","v","w","x","y","z">>

Whitespace == {" ", "\n", "\t"}

LowerChar(c) ==
    IF \E i \in 1..Len(Uppers) : Uppers[i] = c
    THEN Lowers[CHOOSE i \in 1..Len(Uppers) : Uppers[i] = c]
    ELSE c

\* str.lower()
Lower(s) == [i \in 1..Len(s) |-> LowerChar(s[i])]

RECURSIVE LStrip(_)
LStrip(s) ==
    IF s # <<>> /\ Head(s) \in Whitespace THEN LStrip(Tail(s)) ELSE s

RECURSIVE RStrip(_)
RStrip(s) ==
    IF s # <<>> /\ s[Len(s)] \in Whitespace
    THEN RStrip(SubSeq(s, 1, Len(s) - 1))
    ELSE s

\* str.strip()
Strip(s) == RStrip(LStrip(s))

(***************************************************************************)
(* Python values: None, a string, and the outcome of a call, which is      *)
(* either a returned value or a raised exception.                          *)
(***************************************************************************)
None == [k |-> "none"]
Str(s) == [k |-> "str", s |-> s]

Return(v) == [exc |-> "", val |-> v]
Raise(e) == [exc |-> e, val |-> None]

(***************************************************************************)
(* AIService (src/services/ai.py).                                         *)
(***************************************************************************)
work    == <<"w","o","r","k">>
finance == <<"f","i","n","a","n","c","e">>
other   == <<"o","t","h","e","r">>

valid_categories ==
    {work,
     <<"p","e","r","s","o","n","a","l">>,
     <<"l","e","a","r","n","i","n","g">>,
     <<"r","e","f","e","r","e","n","c","e">>,
     <<"i","d","e","a","s">>,
     <<"t","a","s","k","s">>,
     finance,
     <<"h","e","a","l","t","h">>,
     <<"e","n","t","e","r","t","a","i","n","m","e","n","t">>,
     other}

\* "except Exception as e: logger.error(...); return None"
ExceptReraise(r) == r
ExceptReturnNone(r) == IF r.exc # "" THEN Return(None) ELSE r

\* response.choices[0].message.content.strip(): the client call may raise,
\* choices may be empty (IndexError), content may be None (AttributeError).
MessageContent(resp) ==
    IF resp.k = "raise" THEN Raise("APIError")
    ELSE IF Len(resp.choices) = 0 THEN Raise("IndexError")
    ELSE IF resp.choices[1].k = "none" THEN Raise("AttributeError")
    ELSE Return(Strip(resp.choices[1].s))

\* "if category in valid_categories: return category; return 'other'"
ValidateUnchecked(category) == category
ValidateCategory(category) ==
    IF category \in valid_categories THEN category ELSE other

classify_content(key, resp) ==
    IF key = "" THEN Return(None)
    ELSE ExceptReturnNone(
           LET c == MessageContent(resp) IN
           IF c.exc # "" THEN c
           ELSE Return(Str(ValidateCategory(Lower(c.val)))))

\* response.data[0].embedding: the client call may raise, data may be empty.
generate_embedding(key, resp) ==
    IF key = "" THEN Return(None)
    ELSE ExceptReturnNone(
           IF resp.k = "raise" THEN Raise("APIError")
           ELSE IF Len(resp.data) = 0 THEN Raise("IndexError")
           ELSE Return(resp.data[1]))

(***************************************************************************)
(* JSON values as json.loads returns them.                                 *)
(***************************************************************************)
JNull == [k |-> "null"]
JNum(n) == [k |-> "num", n |-> n]
JStr(s) == [k |-> "jstr", s |-> s]
JList(elems) == [k |-> "list", elems |-> elems]
JObj(f) == [k |-> "obj", f |-> f]

\* Python truthiness: "not v" holds of None, 0, "", [] and {}.
Falsy(v) ==
    \/ v.k = "none"
    \/ v.k = "null"
    \/ (v.k = "num" /\ v.n = 0)
    \/ (v.k = "jstr" /\ v.s = "")
    \/ (v.k = "list" /\ Len(v.elems) = 0)
    \/ (v.k = "obj" /\ DOMAIN v.f = {})

\* data.get(key, default): only a dict has .get (AttributeError otherwise).
DictGet(d, key, default) ==
    IF d.k # "obj" THEN Raise("AttributeError")
    ELSE IF key \in DOMAIN d.f THEN Return(d.f[key])
    ELSE Return(default)

\* The reply text of the vision model: an optional opening fence, a body and
\* an optional closing fence.  The body is either text that is no JSON
\* document ([k |-> "text"]) or the JSON document it spells.
\* The two re.sub calls of ai.py:210-211 remove an opening fence that names
\* json (FENCE_JSON) and a closing fence (FENCE); an opening fence without
\* the word json stays.
StripFence(c) ==
    [c EXCEPT !.pre = IF @ = "FENCE_JSON" THEN "" ELSE @,
              !.suf = IF @ = "FENCE" THEN "" ELSE @]

\* json.loads(content): any text around the document, or a body that is no
\* document, raises JSONDecodeError.
json_loads(c) ==
    IF c.pre # "" \/ c.suf # "" \/ c.body.k = "text"
    THEN Raise("JSONDecodeError")
    ELSE Return(c.body)

ErrorResult(why) == [k |-> "error", error |-> why]
SuccessResult(items) == [k |-> "success", items |-> items]

\* The single item of the fallback of ai.py:226-237.
FallbackItem ==
    JObj([name |-> JStr("unknown"), decision |-> JStr("consider"),
          reason |-> JStr("raw"), action |-> JStr("retake")])

\* "if not items: return {'error': ...}"
ItemsMissing(items) == Falsy(items)

\* "except Exception as e: return {'error': ...}" (ai.py:239-243)
ExceptReturnError(r) ==
    IF r.exc # "" THEN Return(ErrorResult("exception")) ELSE r

analyze_image_for_declutter(key, resp) ==
    IF key = "" THEN Return(ErrorResult("nokey"))
    ELSE ExceptReturnError(
           IF resp.k = "raise" THEN Raise("APIError")
           ELSE IF Len(resp.choices) = 0 THEN Raise("IndexError")
           ELSE IF resp.choices[1].k = "none" THEN Raise("AttributeError")
           ELSE LET data == json_loads(StripFence(resp.choices[1])) IN
                IF data.exc = "JSONDecodeError"
                THEN Return(SuccessResult(JList(<<FallbackItem>>)))
                ELSE LET items == DictGet(data.val, "items", JList(<<>>)) IN
                     IF items.exc # "" THEN items
                     ELSE IF ItemsMissing(items.val)
                          THEN Return(ErrorResult("noitems"))
                          ELSE Return(SuccessResult(items.val)))

(***************************************************************************)
(* Provider behaviours the adapter is exercised with.                      *)
(***************************************************************************)
ApiKeys == {"", "sk"}

ChatFailures ==
    {[k |-> "raise"],
     [k |-> "resp", choices |-> <<>>],
     [k |-> "resp", choices |-> <<None>>]}

ChatReply(s) == [k |-> "resp", choices |-> <<Str(s)>>]

\* Replies of the classification model: in the set, padded, capitalised,
\* out of the set, empty.
ClassifyTexts ==
    {work, other, finance,
     <<" ">> \o work \o <<"\n">>,
     <<"W","o","r","k">>,
     <<"\t","T","A","S","K","S"," ">>,
     <<"s","p","o","r","t">>,
     <<"w","o","r","k","s">>,
     <<"w","o"," ","r","k">>,
     <<>>,
     <<" ">>}

ClassifyResponses == ChatFailures \cup {ChatReply(s) : s \in ClassifyTexts}

Vec(v) == [k |-> "vec", v |-> v]

EmbedResponses ==
    {[k |-> "raise"],
     [k |-> "resp", data |-> <<>>],
     [k |-> "resp", data |-> <<Vec(<<1, 0>>)>>],
     [k |-> "resp", data |-> <<Vec(<<0, 1>>), Vec(<<1, 1>>)>>]}

AdviceItem(name, decision) ==
    JObj([name |-> JStr(name), decision |-> JStr(decision),
          reason |-> JStr("r"), action |-> JStr("a")])

NoKeys == [x \in {} |-> JNull]

VisionBodies ==
    {[k |-> "text"], JNull, JNum(5), JStr("fan"), JList(<<>>),
     JList(<<AdviceItem("fan", "keep")>>),
     JObj(NoKeys),
     JObj([note |-> JStr("hi")]),
     JObj([items |-> JNull]),
     JObj([items |-> JList(<<>>)]),
     JObj([items |-> JNum(0)]),
     JObj([items |-> JNum(5)]),
     JObj([items |-> JStr("fan")]),
     JObj([items |-> AdviceItem("fan", "keep")]),
     JObj([items |-> JList(<<AdviceItem("fan", "keep")>>)]),
     JObj([items |-> JList(<<AdviceItem("box", "discard"),
                             AdviceItem("cup", "maybe")>>)]),
     JObj([items |-> JList(<<JObj([name |-> JStr("pen")])>>)])}

VisionResponses ==
    ChatFailures \cup
    {[k |-> "resp",
      choices |-> <<[k |-> "content", pre |-> p, body |-> b, suf |-> s]>>] :
        p \in {"", "FENCE_JSON", "FENCE"}, s \in {"", "FENCE"}, b \in VisionBodies}

(***************************************************************************)
(* The relational store.  db is the committed state; each session holds    *)
(* the rows its open transaction has written (visible to itself alone,     *)
(* READ COMMITTED) and the changes its unit of work has not flushed yet.   *)
(***************************************************************************)
Sessions == {1, 2}

\* Text of the ids new rows of items can get (UUIDMixin draws them at
\* random; a drawn id is never drawn again).
IdSpace == {<<"a","a">>, <<"a","b">>}

NoItem == <<>>

EmptyDb ==
    [items |-> {}, categories |-> {}, tags |-> {},
     item_categories |-> {}, item_tags |-> {}, declutter_tasks |-> {}]

\* What the last command read from the store: nothing, when it was no read.
NoAnswer == [fn |-> "none"]

IdleSess ==
    [pc |-> "idle", op |-> "none", args |-> <<>>, item |-> NoItem,
     reply |-> None, label |-> <<>>, cat |-> 0,
     tag_names |-> <<>>, names |-> <<>>, loaded_tags |-> {},
     ins_items |-> {}, ins_categories |-> {}, ins_tags |-> {},
     ins_item_tags |-> {},
     pend_item_categories |-> {}, pend_item_tags |-> {}, deleted |-> {},
     todo |-> <<>>, ins_tasks |-> {}, set_tasks |-> {}, del_tasks |-> {}]

\* What session s reads: committed rows and the rows it wrote itself.
ViewItems(s) == db.items \cup sess[s].ins_items
ViewCategories(s) == db.categories \cup sess[s].ins_categories
ViewTags(s) == db.tags \cup sess[s].ins_tags
ViewItemTags(s) == db.item_tags \cup sess[s].ins_item_tags
ViewTasks(s) == db.declutter_tasks \cup sess[s].ins_tasks

\* Ids of the rows of categories and tags: the least number no row has.
RowIds ==
    {r.id : r \in db.categories \cup db.tags} \cup
    UNION {{r.id : r \in sess[s].ins_categories \cup sess[s].ins_tags} :
             s \in Sessions}
FreshRowId == CHOOSE n \in 1..(Cardinality(RowIds) + 1) : n \notin RowIds

\* SQL "text LIKE pattern": % matches any run of characters, _ any one, and
\* a backslash makes the character after it literal (a pattern ending in a
\* lone backslash is refused; the patterns of this program end in %).
RECURSIVE Like(_, _)
Like(text, pattern) ==
    IF pattern = <<>> THEN text = <<>>
    ELSE IF Head(pattern) = "\\"
         THEN /\ Tail(pattern) # <<>>
              /\ text # <<>>
              /\ Head(Tail(pattern)) = Head(text)
              /\ Like(Tail(text), Tail(Tail(pattern)))
    ELSE IF Head(pattern) = "%"
         THEN Like(text, Tail(pattern))
              \/ (text # <<>> /\ Like(Tail(text), pattern))
         ELSE /\ text # <<>>
              /\ (Head(pattern) = "_" \/ Head(pattern) = Head(text))
              /\ Like(Tail(text), Tail(pattern))

\* select(Item).where(cast(Item.id, String).like(f"{prefix}%"))
ItemsByPrefix(s, prefix) ==
    {i \in ViewItems(s) : Like(i.id, prefix \o <<"%">>)}

\* Result.scalar_one_or_none(): the row, None, or MultipleResultsFound.
scalar_one_or_none(rows) ==
    IF rows = {} THEN Return(None)
    ELSE IF Cardinality(rows) > 1 THEN Raise("MultipleResultsFound")
    ELSE Return(CHOOSE r \in rows : TRUE)

\* UNIQUE(name) of categories and of tags: an INSERT of a name a committed
\* row has fails; one of a name another open transaction has written waits
\* for that transaction to end.
NoUniqueConstraint(rows, name) == FALSE
UniqueViolation(rows, name) == \E r \in rows : r.name = name

WaitsForCategory(s, t) ==
    /\ sess[s].pc = "insert_category"
    /\ UniqueViolation(sess[t].ins_categories, sess[s].label)

WaitsForTag(s, t) ==
    /\ sess[s].pc = "insert_tag"
    /\ UniqueViolation(sess[t].ins_tags, Head(sess[s].names))

\* PRIMARY KEY(item_id, tag_id) of item_tags, and the row lock the foreign
\* key to items takes: DELETE of an item waits for open transactions that
\* wrote a link to it.
WaitsForLink(s, t) ==
    /\ sess[s].pc \in {"tags", "commit"}
    /\ \/ sess[s].pend_item_tags \cap sess[t].ins_item_tags # {}
       \/ \E l \in sess[t].ins_item_tags : l.item \in sess[s].deleted

WaitsFor(s, t) ==
    s # t /\ (WaitsForCategory(s, t) \/ WaitsForTag(s, t) \/ WaitsForLink(s, t))

Blocked(s) == \E t \in Sessions : WaitsFor(s, t)

\* INSERT of the links the unit of work holds: a link that is there already
\* (primary key) or one to an item that is gone (foreign key) fails.
LinkViolation(s) ==
    \E l \in sess[s].pend_item_tags \cup sess[s].pend_item_categories :
        \/ l \in ViewItemTags(s) \cup db.item_categories
        \/ l.item \notin {i.id : i \in ViewItems(s)}

\* ON DELETE CASCADE of item_categories.item_id and item_tags.item_id.
NoCascade(links, gone) == links
Cascade(links, gone) == {l \in links : l.item \notin gone}

\* "task.status = status; task.action_taken = action_taken": the UPDATE the
\* flush sends for the changes set_tasks holds of the row.  The unit of work
\* compares each attribute with the value it loaded: a column that was
\* assigned the value it had is not part of the UPDATE.
SetStatusOnce(task, status) ==
    IF task.status = "pending" THEN [task EXCEPT !.status = status] ELSE task
SetStatus(task, status) == [task EXCEPT !.status = status]

UpdatedAll(task, changes) ==
    IF changes = {} THEN task
    ELSE SetStatus(task, (CHOOSE c \in changes : TRUE).status)
Updated(task, changes) ==
    IF \E c \in changes : c.id = task.id
    THEN LET c == CHOOSE c \in changes : c.id = task.id IN
         [(IF c.dirty THEN SetStatus(task, c.status) ELSE task) EXCEPT
            !.action_taken = IF c.action_taken = None THEN @
                             ELSE c.action_taken]
    ELSE task

\* The committed state once session s commits: its written rows, the links
\* its unit of work still holds, its updates, its deletions.
Committed(s) ==
    LET gone == sess[s].deleted IN
    [items |-> {i \in db.items \cup sess[s].ins_items : i.id \notin gone},
     categories |-> db.categories \cup sess[s].ins_categories,
     tags |-> db.tags \cup sess[s].ins_tags,
     item_categories |->
        Cascade(db.item_categories \cup sess[s].pend_item_categories, gone),
     item_tags |->
        Cascade(db.item_tags \cup sess[s].ins_item_tags
                  \cup sess[s].pend_item_tags, gone),
     declutter_tasks |->
        {Updated(task, sess[s].set_tasks) :
           task \in {r \in ViewTasks(s) : r.id \notin sess[s].del_tasks}}]

(***************************************************************************)
(* get_db (src/core/database.py:28-37): one session per request, committed *)
(* when the body ends, rolled back when it raises.                         *)
(***************************************************************************)
\* What the command layer saw last: the lookup of an id prefix ("found",
\* "notfound") or the end of a request ("ok", or the exception that left the
\* scope).  NoPrefix stands for a request that takes no prefix, or whose
\* lookup is over.
NoPrefix == <<"-">>
Seen(op, prefix, item, result) ==
    [op |-> op, prefix |-> prefix, item |-> item, result |-> result]

\* "except Exception: await session.rollback(); raise"
RollbackSkipped(s) == Committed(s)
StoreAfterException(s) == db

\* The request of session s, in state r, raises exc.
RaisesReplied(s, r, prefix, exc) ==
    /\ sess' = [sess EXCEPT ![s] = IdleSess]
    /\ db' = StoreAfterException(s)
    /\ last' = Seen(r.op, prefix, r.item, "ok")
Raises(s, r, prefix, exc) ==
    /\ sess' = [sess EXCEPT ![s] = IdleSess]
    /\ db' = StoreAfterException(s)
    /\ last' = Seen(r.op, prefix, r.item, exc)

\* "await session.commit()": flush, then COMMIT.
Commit(s) ==
    /\ sess[s].pc = "commit"
    /\ ~Blocked(s)
    /\ IF LinkViolation(s)
       THEN Raises(s, sess[s], NoPrefix, "IntegrityError")
       ELSE /\ db' = Committed(s)
            /\ sess' = [sess EXCEPT ![s] = IdleSess]
            /\ last' = Seen(sess[s].op, NoPrefix, sess[s].item, "ok")
    /\ UNCHANGED <<apiKey, usedIds, nreq, aiCall, answer, task_list_mapping, reactions>>

\* Any awaited call of an open request may fail (connection lost).
Fault(s) ==
    /\ sess[s].pc # "idle"
    /\ Raises(s, sess[s], NoPrefix, "OperationalError")
    /\ UNCHANGED <<apiKey, usedIds, nreq, aiCall, answer, task_list_mapping, reactions>>

\* Two transactions waiting for each other: the database ends one of them.
DeadlockAbort(s) ==
    /\ \E t \in Sessions : WaitsFor(s, t) /\ WaitsFor(t, s)
    /\ Raises(s, sess[s], NoPrefix, "DeadlockDetected")
    /\ UNCHANGED <<apiKey, usedIds, nreq, aiCall, answer, task_list_mapping, reactions>>

(***************************************************************************)
(* ItemService (src/services/items.py) under the commands of               *)
(* src/bot/cogs/collect.py.                                                *)
(***************************************************************************)
DbEmbedResponses ==
    {[k |-> "raise"], [k |-> "resp", data |-> <<Vec(<<1, 0>>)>>]}

DbClassifyResponses ==
    {[k |-> "raise"], ChatReply(other), ChatReply(<<" ","W","o","r","k">>),
     ChatReply(<<"s","p","o","r","t">>)}

\* Item(...) of create_item (items.py:37-46).  created_at is the server's
\* now(): a later item has a later time; the n-th item made has time n.
ItemRow(id, f, embedding, now) ==
    [id |-> id, content |-> f.content, content_type |-> f.content_type,
     url |-> f.url, url_title |-> f.url_title,
     url_description |-> f.url_description,
     embedding |-> embedding, created_at |-> now]

\* create_item up to the flush of the new item (items.py:23-49), for the
\* fields f of the item and the behaviours resps of the embeddings call, in
\* the command op called with args.
create_item(s, op, args, f, resps) ==
    /\ sess[s].pc = "idle"
    /\ nreq < MaxReqs
    /\ \E id \in IdSpace \ usedIds, resp \in resps :
         LET embedding == generate_embedding(apiKey, resp)
             r == [IdleSess EXCEPT !.op = op, !.args = args, !.item = id] IN
         /\ usedIds' = usedIds \cup {id}
         /\ IF embedding.exc # ""
            THEN Raises(s, r, NoPrefix, embedding.exc)
            ELSE /\ sess' = [sess EXCEPT ![s] =
                       [r EXCEPT !.pc = "classify",
                                 !.ins_items =
                                    {ItemRow(id, f, embedding.val,
                                             Cardinality(usedIds) + 1)}]]
                 /\ db' = db
                 /\ last' = last
    /\ nreq' = nreq + 1
    /\ answer' = NoAnswer
    /\ UNCHANGED <<apiKey, aiCall, task_list_mapping, reactions>>

\* The text of /save.
SavedTexts == {<<"n","o","t","e">>}

\* /save (collect.py:20-43): create_item with content_type "text".
Save(s) ==
    \E content \in SavedTexts :
      create_item(s, "save", <<content>>,
                  [content |-> content, content_type |-> "text", url |-> None,
                   url_title |-> None, url_description |-> None],
                  DbEmbedResponses)

(***************************************************************************)
(* create_item_from_url (items.py:56-107).  A page is a sequence whose     *)
(* elements are characters and the markers the code searches for.          *)
(***************************************************************************)
Quote == "QUOTE"

\* str.find(tok, from), counting from 1: 0 when tok is absent.
FindFrom(html, tok, from) ==
    LET at == {i \in from..Len(html) : html[i] = tok} IN
    IF at = {} THEN 0 ELSE CHOOSE i \in at : \A j \in at : i <= j

\* "if '<title>' in html: start = find + 7; end = find('</title>');
\*  if end > start: title = html[start:end].strip()"
ExtractTitle(html) ==
    LET p == FindFrom(html, "<title>", 1)
        e == FindFrom(html, "</title>", 1) IN
    IF p # 0 /\ e > p + 1 THEN Str(Strip(SubSeq(html, p + 1, e - 1)))
    ELSE None

\* The text after pattern pt, up to the next quote (items.py:98-103).
ExtractAfter(html, pt) ==
    LET p == FindFrom(html, pt, 1)
        e == FindFrom(html, Quote, p + 1) IN
    IF p # 0 /\ e > p + 1 THEN Str(Strip(SubSeq(html, p + 1, e - 1)))
    ELSE None

\* "for pattern in [lower, upper]: ... break" (items.py:95-103)
ExtractDescription(html) ==
    IF ExtractAfter(html, "name=description content=") # None
    THEN ExtractAfter(html, "name=description content=")
    ELSE ExtractAfter(html, "name=Description content=")

\* _fetch_url_metadata: the request may time out, raise_for_status raises
\* on an error status ("except Exception: return None, None"), otherwise
\* the body is searched.
_fetch_url_metadata(page) ==
    IF page.k # "html" THEN Return([title |-> None, description |-> None])
    ELSE Return([title |-> ExtractTitle(page.html),
                 description |-> ExtractDescription(page.html)])

\* Python's "v or default" for an optional string.
OrElse(v, default) == IF v = None \/ v.s = <<>> THEN default ELSE v.s

\* Urls a user saves, and what fetching them gives.
Urls == {<<"u">>, <<"U","_">>}

Pages ==
    {[k |-> "timeout"], [k |-> "status"],
     [k |-> "html", html |-> <<>>],
     [k |-> "html", html |-> <<"<title>", "</title>">>],
     [k |-> "html", html |-> <<"</title>", "<title>", "x">>],
     [k |-> "html",
      html |-> <<"<title>", " ", "A", "b", "%", "\n", "</title>",
                 "name=description content=", Quote, "name=Description content=", "\\", "n", Quote>>]}

\* The embeddings the provider gives for the text of saved urls.
UrlEmbedResponses ==
    {[k |-> "raise"], [k |-> "resp", data |-> <<Vec(<<3, 4>>)>>],
     [k |-> "resp", data |-> <<Vec(<<0, 1>>)>>]}

\* /save-url (collect.py:45-69): create_item_from_url, up to the flush.
SaveUrl(s) ==
    \E url \in Urls, page \in Pages :
      LET meta == _fetch_url_metadata(page) IN
      IF meta.exc # ""
      THEN /\ sess[s].pc = "idle"
           /\ nreq < MaxReqs
           /\ nreq' = nreq + 1
           /\ Raises(s, [IdleSess EXCEPT !.op = "save_url"], NoPrefix, meta.exc)
           /\ answer' = NoAnswer
           /\ UNCHANGED <<apiKey, usedIds, aiCall, task_list_mapping, reactions>>
      ELSE create_item(s, "save_url", <<url, page.k>>,
             [content |-> OrElse(meta.val.title, url) \o <<"\n">>
                            \o OrElse(meta.val.description, <<>>),
              content_type |-> "url", url |-> Str(url),
              url_title |-> meta.val.title,
              url_description |-> meta.val.description],
             UrlEmbedResponses)

\* "if category_name:"
Truthy(v) == v.k = "str" /\ v.s # <<>>

\* _auto_categorize: classify, then look the category up (items.py:109-119).
AutoCategorize(s) ==
    /\ sess[s].pc = "classify"
    /\ \E resp \in DbClassifyResponses :
         LET category_name == classify_content(apiKey, resp)
             r == [sess[s] EXCEPT !.reply = resp] IN
         IF category_name.exc # ""
         THEN Raises(s, r, NoPrefix, category_name.exc)
         ELSE IF ~Truthy(category_name.val)
         THEN /\ sess' = [sess EXCEPT ![s] = [r EXCEPT !.pc = "commit"]]
              /\ db' = db
              /\ last' = last
         ELSE LET name == category_name.val.s
                  category == scalar_one_or_none(
                      {c \in ViewCategories(s) : c.name = name}) IN
              IF category.exc # ""
              THEN Raises(s, r, NoPrefix, category.exc)
              ELSE /\ sess' = [sess EXCEPT ![s] =
                         IF category.val = None
                         THEN [r EXCEPT !.pc = "insert_category",
                                        !.label = name]
                         ELSE [r EXCEPT !.pc = "link_category",
                                        !.label = name,
                                        !.cat = category.val.id]]
                   /\ db' = db
                   /\ last' = last
    /\ UNCHANGED <<apiKey, usedIds, nreq, aiCall, answer, task_list_mapping, reactions>>

\* "category = Category(name=...); db.add(category); await db.flush()"
InsertCategory(s) ==
    /\ sess[s].pc = "insert_category"
    /\ ~Blocked(s)
    /\ IF UniqueViolation(db.categories, sess[s].label)
       THEN Raises(s, sess[s], NoPrefix, "IntegrityError")
       ELSE /\ sess' = [sess EXCEPT ![s] =
                  [@ EXCEPT !.pc = "link_category",
                            !.cat = FreshRowId,
                            !.ins_categories =
                               @ \cup {[id |-> FreshRowId,
                                        name |-> sess[s].label]}]]
            /\ db' = db
            /\ last' = last
    /\ UNCHANGED <<apiKey, usedIds, nreq, aiCall, answer, task_list_mapping, reactions>>

\* The item of create_item is built without its categories and then flushed:
\* its collection is not loaded, and reading it would load it, which an
\* AsyncSession cannot do outside its own calls (MissingGreenlet).
CategoriesLoaded == FALSE

\* "item.categories.append(category)" (items.py:125)
LinkCategory(s) ==
    /\ sess[s].pc = "link_category"
    /\ IF ~CategoriesLoaded
       THEN Raises(s, sess[s], NoPrefix, "MissingGreenlet")
       ELSE /\ sess' = [sess EXCEPT ![s] =
                  [@ EXCEPT !.pc = "commit",
                            !.pend_item_categories =
                               @ \cup {[item |-> sess[s].item,
                                        cat |-> sess[s].cat]}]]
            /\ db' = db
            /\ last' = last
    /\ UNCHANGED <<apiKey, usedIds, nreq, aiCall, answer, task_list_mapping, reactions>>

\* Prefixes a user types for an item id, and the tag lists of /tag.
Prefixes ==
    {<<>>, <<"a">>, <<"a","b">>, <<"b">>, <<"%">>, <<"_","b">>}

TagNames == {"x", "y"}

TagLists == {<<"x">>, <<"x","x">>, <<"x","y">>, <<"y","x">>}

\* The loop of add_tags goes on with the names left, or the body ends.
NextName(r) ==
    [r EXCEPT !.names = Tail(@),
              !.pc = IF Tail(r.names) = <<>> THEN "commit" ELSE "tags"]

\* "if tag not in item.tags: item.tags.append(tag)"
AppendAlways(r, tag) ==
    [r EXCEPT !.loaded_tags = @ \cup {tag},
              !.pend_item_tags = @ \cup {[item |-> r.item, tag |-> tag]}]
AppendTag(r, tag) ==
    IF tag \in r.loaded_tags THEN r
    ELSE [r EXCEPT !.loaded_tags = @ \cup {tag},
                   !.pend_item_tags = @ \cup {[item |-> r.item, tag |-> tag]}]

\* /tag: add_tags up to the loop: the item by prefix, with its tags loaded
\* (items.py:127-138).  None leaves the scope at once (collect.py:88-93).
add_tags(s) ==
    /\ sess[s].pc = "idle"
    /\ nreq < MaxReqs
    /\ \E item_id_prefix \in Prefixes, tag_names \in TagLists :
         LET r == [IdleSess EXCEPT !.op = "tag", !.tag_names = tag_names,
                                   !.names = tag_names]
             item == scalar_one_or_none(ItemsByPrefix(s, item_id_prefix)) IN
         IF item.exc # "" THEN Raises(s, r, item_id_prefix, item.exc)
         ELSE IF item.val = None
         THEN /\ sess' = [sess EXCEPT ![s] = IdleSess]
              /\ db' = Committed(s)
              /\ last' = Seen(r.op, item_id_prefix, NoItem, "notfound")
         ELSE /\ sess' = [sess EXCEPT ![s] =
                    [r EXCEPT !.item = item.val.id,
                              !.loaded_tags =
                                 {l.tag : l \in {m \in ViewItemTags(s) :
                                                   m.item = item.val.id}},
                              !.pc = IF tag_names = <<>> THEN "commit"
                                     ELSE "tags"]]
              /\ db' = db
              /\ last' = Seen(r.op, item_id_prefix, item.val.id, "found")
    /\ nreq' = nreq + 1
    /\ answer' = NoAnswer
    /\ UNCHANGED <<apiKey, usedIds, aiCall, task_list_mapping, reactions>>

\* One turn of the loop: the SELECT of the tag, before which the session
\* flushes the links appended so far (items.py:140-153).
SelectTag(s) ==
    /\ sess[s].pc = "tags"
    /\ ~Blocked(s)
    /\ IF LinkViolation(s)
       THEN Raises(s, sess[s], NoPrefix, "IntegrityError")
       ELSE LET r == [sess[s] EXCEPT !.ins_item_tags =
                                        @ \cup sess[s].pend_item_tags,
                                     !.pend_item_tags = {}]
                tag == scalar_one_or_none(
                    {g \in ViewTags(s) : g.name = Head(r.names)}) IN
            IF tag.exc # "" THEN Raises(s, r, NoPrefix, tag.exc)
            ELSE /\ sess' = [sess EXCEPT ![s] =
                       IF tag.val = None
                       THEN [r EXCEPT !.pc = "insert_tag"]
                       ELSE NextName(AppendTag(r, tag.val.id))]
                 /\ db' = db
                 /\ last' = last
    /\ UNCHANGED <<apiKey, usedIds, nreq, aiCall, answer, task_list_mapping, reactions>>

\* "tag = Tag(name=tag_name); db.add(tag); await db.flush()", then the link.
InsertTag(s) ==
    /\ sess[s].pc = "insert_tag"
    /\ ~Blocked(s)
    /\ IF UniqueViolation(db.tags, Head(sess[s].names))
       THEN Raises(s, sess[s], NoPrefix, "IntegrityError")
       ELSE /\ sess' = [sess EXCEPT ![s] =
                  NextName(AppendTag(
                      [@ EXCEPT !.ins_tags =
                           @ \cup {[id |-> FreshRowId,
                                    name |-> Head(sess[s].names)]}],
                      FreshRowId))]
            /\ db' = db
            /\ last' = last
    /\ UNCHANGED <<apiKey, usedIds, nreq, aiCall, answer, task_list_mapping, reactions>>

\* /delete: delete_item (items.py:178-189); False leaves the scope at once
\* (collect.py:154-159).
delete_item(s) ==
    /\ sess[s].pc = "idle"
    /\ nreq < MaxReqs
    /\ \E item_id_prefix \in Prefixes :
         LET r == [IdleSess EXCEPT !.op = "delete"]
             item == scalar_one_or_none(ItemsByPrefix(s, item_id_prefix)) IN
         IF item.exc # "" THEN Raises(s, r, item_id_prefix, item.exc)
         ELSE IF item.val = None
         THEN /\ sess' = [sess EXCEPT ![s] = IdleSess]
              /\ db' = Committed(s)
              /\ last' = Seen(r.op, item_id_prefix, NoItem, "notfound")
         ELSE /\ sess' = [sess EXCEPT ![s] =
                    [r EXCEPT !.item = item.val.id,
                              !.deleted = {item.val.id},
                              !.pc = "commit"]]
              /\ db' = db
              /\ last' = Seen(r.op, item_id_prefix, item.val.id, "found")
    /\ nreq' = nreq + 1
    /\ answer' = NoAnswer
    /\ UNCHANGED <<apiKey, usedIds, aiCall, task_list_mapping, reactions>>

(***************************************************************************)
(* SearchService (src/services/search.py).  A search is one request that   *)
(* reads the committed store; answer holds what it returned.               *)
(***************************************************************************)
RECURSIVE Dot(_, _)
Dot(a, b) ==
    IF a = <<>> \/ b = <<>> THEN 0
    ELSE Head(a) * Head(b) + Dot(Tail(a), Tail(b))

\* Item.embedding.cosine_distance(q): 1 - a.b / sqrt((a.a)(b.b)).  The root
\* is not taken: the value is kept as the pair (a.b, (a.a)(b.b)), which
\* orders and compares distances exactly.
cosine_distance(a, b) == [dot |-> Dot(a, b), nn |-> Dot(a, a) * Dot(b, b)]

\* distance = 0: the two vectors point the same way.
IsZero(d) == d.dot > 0 /\ d.dot * d.dot = d.nn

\* d < e
Closer(d, e) ==
    IF d.dot >= 0
    THEN e.dot < 0 \/ d.dot * d.dot * e.nn > e.dot * e.dot * d.nn
    ELSE e.dot < 0 /\ d.dot * d.dot * e.nn < e.dot * e.dot * d.nn

\* A number kept as dot / sqrt(nn).
Cosine(d) == [dot |-> d.dot, nn |-> d.nn]

\* "similarity = 1 - distance if distance else 0": 1 - distance is the
\* cosine; a distance of 0 is falsy.
Similarity(distance) ==
    IF IsZero(distance) THEN [dot |-> 0, nn |-> 1] ELSE Cosine(distance)

\* The sequences that list every element of S once.
Orderings(S) ==
    {o \in [1..Cardinality(S) -> S] : \A i, j \in DOMAIN o : o[i] = o[j] => i = j}

\* LIMIT n
Take(rows, n) == SubSeq(rows, 1, IF n < Len(rows) THEN n ELSE Len(rows))

\* The rows an ORDER BY distance can give: ties in any order.
ByDistance(S, q) ==
    {o \in Orderings(S) :
        \A i, j \in DOMAIN o :
            i < j => ~Closer(cosine_distance(o[j].embedding.v, q),
                             cosine_distance(o[i].embedding.v, q))}

\* items_embedding_idx (001_initial.py:134-140) is an ivfflat index with
\* 100 lists: a scan through it reads one list, the one the query vector
\* falls in.  Vectors of the same direction fall in the same list; which
\* other rows share it depends on the centres the index was built with.
\* The planner may also read the whole table.
Scans(S, q) ==
    {L \in SUBSET S :
        \A i \in S :
            /\ IsZero(cosine_distance(i.embedding.v, q)) => i \in L
            /\ \A j \in L :
                 IsZero(cosine_distance(i.embedding.v, j.embedding.v))
                   => i \in L}

Limits == {-1, 0, 1, 2}

\* The embeddings the provider gives for queries.
QueryEmbedResponses ==
    {[k |-> "raise"], [k |-> "resp", data |-> <<Vec(<<1, 0>>)>>],
     [k |-> "resp", data |-> <<Vec(<<3, 4>>)>>]}

semantic_search(s) ==
    /\ sess[s].pc = "idle"
    /\ nreq < MaxReqs
    /\ \E resp \in QueryEmbedResponses, limit \in Limits :
         LET query_embedding == generate_embedding(apiKey, resp)
             reply == [fn |-> "semantic_search", limit |-> limit,
                       query_embedding |-> query_embedding.val] IN
         IF query_embedding.val = None
         THEN answer' = reply @@ [queried |-> FALSE, out |-> Return(<<>>)]
         ELSE IF limit < 0
         THEN answer' = reply @@ [queried |-> TRUE, out |-> Raise("DataError")]
         ELSE LET q == query_embedding.val.v
                  S == {i \in ViewItems(s) : i.embedding # None} IN
              \E L \in Scans(S, q) : \E rows \in ByDistance(L, q) :
                 LET top == Take(rows, limit) IN
                 answer' = reply @@
                   [queried |-> TRUE,
                    out |-> Return(
                      [n \in DOMAIN top |->
                         [item |-> top[n].id,
                          score |-> Similarity(
                             cosine_distance(top[n].embedding.v, q))]])]
    /\ nreq' = nreq + 1
    /\ UNCHANGED <<apiKey, db, usedIds, sess, last, aiCall, task_list_mapping, reactions>>

\* "search_pattern = f'%{keyword}%'": the keyword goes into the pattern as
\* it is.
search_pattern(keyword) == <<"%">> \o keyword \o <<"%">>

\* content ILIKE pattern
ILike(text, pattern) == Like(Lower(text), Lower(pattern))

\* ORDER BY created_at DESC
NewestFirst(S) ==
    {o \in Orderings(S) :
        \A i, j \in DOMAIN o : i < j => o[i].created_at >= o[j].created_at}

Keywords == {<<>>, <<"A","B">>, <<"%">>, <<"_">>, <<"U","_">>, <<"\\">>}

keyword_search(s) ==
    /\ sess[s].pc = "idle"
    /\ nreq < MaxReqs
    /\ \E keyword \in Keywords, limit \in Limits :
         LET reply == [fn |-> "keyword_search", keyword |-> keyword,
                       limit |-> limit] IN
         IF limit < 0
         THEN answer' = reply @@ [queried |-> TRUE, out |-> Raise("DataError")]
         ELSE \E rows \in NewestFirst(
                  {i \in ViewItems(s) :
                     ILike(i.content, search_pattern(keyword))}) :
                answer' = reply @@
                  [queried |-> TRUE,
                   out |-> Return([n \in DOMAIN Take(rows, limit) |->
                                     rows[n].id])]
    /\ nreq' = nreq + 1
    /\ UNCHANGED <<apiKey, db, usedIds, sess, last, aiCall, task_list_mapping, reactions>>

(***************************************************************************)
(* ItemService.export_data (items.py:230-283).                             *)
(***************************************************************************)
\* json.dumps of a string, ensure_ascii=False: the text between the quotes.
RECURSIVE JsonEscape(_)
JsonEscape(s) ==
    IF s = <<>> THEN <<>>
    ELSE (IF Head(s) = Quote THEN <<"\\", Quote>>
          ELSE IF Head(s) = "\\" THEN <<"\\", "\\">>
          ELSE IF Head(s) = "\n" THEN <<"\\", "n">>
          ELSE IF Head(s) = "\t" THEN <<"\\", "t">>
          ELSE <<Head(s)>>) \o JsonEscape(Tail(s))

\* json.dumps of an optional string.
JsonText(v) == IF v = None THEN JNull ELSE JStr(JsonEscape(v.s))

\* csv.writer: a field with a comma, a quote or a line break is put in
\* quotes, its quotes doubled.
RECURSIVE CsvDouble(_)
CsvDouble(s) ==
    IF s = <<>> THEN <<>>
    ELSE (IF Head(s) = Quote THEN <<Quote, Quote>> ELSE <<Head(s)>>)
           \o CsvDouble(Tail(s))

CsvField(s) ==
    IF \E i \in DOMAIN s : s[i] \in {",", Quote, "\n"}
    THEN <<Quote>> \o CsvDouble(s) \o <<Quote>>
    ELSE s

\* ",".join(names)
RECURSIVE Join(_)
Join(names) ==
    IF names = <<>> THEN <<>>
    ELSE IF Len(names) = 1 THEN <<Head(names)>>
    ELSE <<Head(names), ",">> \o Join(Tail(names))

\* created_at.isoformat()
isoformat(n) == <<"T", ToString(n)>>

\* "select(Item).options(selectinload(...)).order_by(Item.created_at)"
ExportRowsTagged(s) ==
    {i \in ViewItems(s) : \E l \in ViewItemTags(s) : l.item = i.id}
ExportRows(s) == ViewItems(s)

OldestFirst(S) ==
    {o \in Orderings(S) :
        \A i, j \in DOMAIN o : i < j => o[i].created_at <= o[j].created_at}

\* [c.name for c in item.categories] and [t.name for t in item.tags], the
\* rows of each table in the order the database gave them.
NamesOf(rows, linked) ==
    LET mine == SelectSeq(rows, LAMBDA r : r.id \in linked) IN
    [n \in DOMAIN mine |-> mine[n].name]

JsonRecord(item, categories, tags) ==
    JObj([id |-> JStr(JsonEscape(item.id)),
          content |-> JStr(JsonEscape(item.content)),
          content_type |-> JStr(JsonEscape(<<item.content_type>>)),
          url |-> JsonText(item.url),
          url_title |-> JsonText(item.url_title),
          categories |->
             JList([n \in DOMAIN categories |->
                      JStr(JsonEscape(<<categories[n]>>))]),
          tags |-> JList([n \in DOMAIN tags |-> JStr(JsonEscape(<<tags[n]>>))]),
          created_at |-> JStr(JsonEscape(isoformat(item.created_at)))])

CsvRecord(item, categories, tags) ==
    <<CsvField(item.id), CsvField(item.content),
      CsvField(<<item.content_type>>),
      CsvField(OrElse(item.url, <<>>)),
      CsvField(Join(categories)), CsvField(Join(tags)),
      CsvField(isoformat(item.created_at))>>

Formats == {"json", "csv", "xml"}

export_data(s) ==
    /\ sess[s].pc = "idle"
    /\ nreq < MaxReqs
    /\ \E format \in Formats :
       \E items \in OldestFirst(ExportRows(s)) :
       \E cats \in Orderings(ViewCategories(s)), tags \in Orderings(ViewTags(s)) :
         LET C(n) == NamesOf(cats, {l.cat : l \in {m \in db.item_categories :
                                                      m.item = items[n].id}})
             T(n) == NamesOf(tags, {l.tag : l \in {m \in ViewItemTags(s) :
                                                      m.item = items[n].id}})
             reply == [fn |-> "export_data", format |-> format] IN
         IF items = <<>> THEN answer' = reply @@ [out |-> Return(None)]
         ELSE IF format = "json"
         THEN answer' = reply @@
                [out |-> Return([k |-> "bytes",
                     doc |-> JList([n \in DOMAIN items |->
                                      JsonRecord(items[n], C(n), T(n))])])]
         ELSE IF format = "csv"
         THEN answer' = reply @@
                [out |-> Return([k |-> "bytes",
                     doc |-> <<<<"id", "content", "content_type", "url",
                                 "categories", "tags", "created_at">>>> \o
                             [n \in DOMAIN items |->
                                CsvRecord(items[n], C(n), T(n))]])]
         ELSE answer' = reply @@ [out |-> Return(None)]
    /\ nreq' = nreq + 1
    /\ UNCHANGED <<apiKey, db, usedIds, sess, last, aiCall, task_list_mapping, reactions>>

(***************************************************************************)
(* DeclutterTaskService (src/services/declutter.py) under the commands and *)
(* the reaction listeners of src/bot/cogs/declutter.py.                    *)
(***************************************************************************)
\* The attachment of /declutter.
Attachments ==
    {[content_type |-> None, url |-> "f"],
     [content_type |-> Str(<<"text/", "p">>), url |-> "g"],
     [content_type |-> Str(<<"image/", "p">>), url |-> "h"]}

\* "not image.content_type or not image.content_type.startswith('image/')"
NotAnImage(image) ==
    \/ image.content_type = None
    \/ image.content_type.s = <<>>
    \/ Head(image.content_type.s) # "image/"

\* What the vision model says of the photos of /declutter.  The texts are
\* short enough for the columns they go to.
DeclutterBodies ==
    {[k |-> "text"],
     JObj([items |-> JNum(5)]),
     JObj([items |-> JStr("fan")]),
     JObj([items |-> JList(<<AdviceItem("fan", "keep")>>)]),
     JObj([items |-> JList(<<AdviceItem("box", "discard"),
                             AdviceItem("cup", "maybe")>>)]),
     JObj([items |-> JList(<<JObj([name |-> JStr("pen")])>>)]),
     JObj([items |-> JList(<<AdviceItem("fan", "keep"),
                             JObj([name |-> JStr("cup"),
                                   decision |-> JNull])>>)]),
     JObj([items |-> JList(<<AdviceItem("fan", "keep"), JStr("cup")>>)])}

DeclutterResponses ==
    {[k |-> "raise"]} \cup
    {[k |-> "resp",
      choices |-> <<[k |-> "content", pre |-> "", body |-> b, suf |-> ""]>>] :
        b \in DeclutterBodies}

\* "for item in items": the elements of a list; of a str its characters and
\* of a dict its keys, which are strs; a number is not iterable.
Iterate(items) ==
    IF items.k = "list" THEN Return(items.elems)
    ELSE IF items.k \in {"jstr", "obj"} THEN Return(<<JStr("c")>>)
    ELSE Raise("TypeError")

\* INSERT of v into a String column that is not nullable.
ColumnError(v) ==
    IF v.k = "null" THEN "IntegrityError"
    ELSE IF v.k # "jstr" THEN "DataError"
    ELSE ""

\* DeclutterTask(item_name=..., decision=..., status="pending", ...)
create_task(id, item_name, decision, image_url, source_message_id) ==
    [id |-> id, item_name |-> item_name, decision |-> decision,
     status |-> "pending", action_taken |-> None, image_url |-> image_url,
     source_message_id |-> source_message_id,
     created_at |-> source_message_id]

\* /declutter up to the loop (cogs/declutter.py:31-72).
Declutter(s) ==
    /\ sess[s].pc = "idle"
    /\ nreq < MaxTaskReqs
    /\ \E image \in Attachments, resp \in DeclutterResponses :
         LET result == analyze_image_for_declutter(apiKey, resp).val
             r == [IdleSess EXCEPT !.op = "declutter",
                                   !.args = <<image.url, nreq + 1>>]
             replied(why) ==
                 /\ sess' = sess
                 /\ db' = db
                 /\ last' = Seen(r.op, NoPrefix, NoItem, why) IN
         IF NotAnImage(image) THEN replied("noimage")
         ELSE IF result.k = "error" THEN replied("error")
         ELSE IF Falsy(result.items) THEN replied("noitems")
         ELSE LET items == Iterate(result.items) IN
              IF items.exc # "" THEN Raises(s, r, NoPrefix, items.exc)
              ELSE /\ sess' = [sess EXCEPT ![s] =
                         [r EXCEPT !.pc = "create_task", !.todo = items.val]]
                   /\ db' = db
                   /\ last' = last
    /\ nreq' = nreq + 1
    /\ answer' = NoAnswer
    /\ UNCHANGED <<apiKey, usedIds, aiCall, task_list_mapping, reactions>>

\* One turn of the loop of /declutter: the fields of the item, then
\* create_task and its flush (cogs/declutter.py:73-99).
CreateTask(s) ==
    /\ sess[s].pc = "create_task"
    /\ LET item == Head(sess[s].todo)
           item_name == DictGet(item, "name", JStr("unknown"))
           decision == DictGet(item, "decision", JStr("consider"))
           raises(exc) == Raises(s, sess[s], NoPrefix, exc) /\ usedIds' = usedIds
       IN
       IF item_name.exc # "" THEN raises(item_name.exc)
       \* "decision_emoji.get(decision, ...)": a list or a dict is no key
       ELSE IF decision.val.k \in {"list", "obj"} THEN raises("TypeError")
       ELSE IF ColumnError(item_name.val) # ""
       THEN raises(ColumnError(item_name.val))
       ELSE IF ColumnError(decision.val) # ""
       THEN raises(ColumnError(decision.val))
       ELSE \E id \in IdSpace \ usedIds :
              /\ usedIds' = usedIds \cup {id}
              /\ sess' = [sess EXCEPT ![s] =
                    [@ EXCEPT !.ins_tasks =
                                 @ \cup {create_task(id, item_name.val.s,
                                                     decision.val.s,
                                                     sess[s].args[1],
                                                     sess[s].args[2])},
                              !.todo = Tail(@),
                              !.pc = IF Tail(sess[s].todo) = <<>>
                                     THEN "commit" ELSE "create_task"]]
              /\ db' = db
              /\ last' = last
    /\ UNCHANGED <<apiKey, nreq, aiCall, answer, task_list_mapping, reactions>>

\* get_task_by_prefix:
\* "func.cast(DeclutterTask.id, String).like(f'{id_prefix}%')"
TasksByPrefix(s, id_prefix) ==
    {r \in ViewTasks(s) : Like(r.id, id_prefix \o <<"%">>)}

\* "if action_taken: task.action_taken = action_taken"
Change(task, status, action_taken) ==
    [id |-> task.id, status |-> status, dirty |-> status # task.status,
     action_taken |-> IF action_taken = None \/ action_taken.s = <<>>
                      THEN None ELSE action_taken]

Notes == {None, Str(<<>>), Str(<<"n">>)}

Statuses == {"pending", "done", "dismissed"}

\* update_task_status in the scope of a command op; None leaves the scope at
\* once.
update_task_status(s, op, id_prefix, status, action_taken) ==
    /\ sess[s].pc = "idle"
    /\ nreq < MaxTaskReqs
    /\ LET r == [IdleSess EXCEPT !.op = op, !.args = <<status>>]
           task == scalar_one_or_none(TasksByPrefix(s, id_prefix)) IN
       IF task.exc # "" THEN Raises(s, r, id_prefix, task.exc)
       ELSE IF task.val = None
       THEN /\ sess' = [sess EXCEPT ![s] = IdleSess]
            /\ db' = Committed(s)
            /\ last' = Seen(r.op, id_prefix, NoItem, "notfound")
       ELSE /\ sess' = [sess EXCEPT ![s] =
                  [r EXCEPT !.item = task.val.id,
                            !.set_tasks =
                               {Change(task.val, status, action_taken)},
                            !.pc = "commit"]]
            /\ db' = db
            /\ last' = Seen(r.op, id_prefix, task.val.id, "found")
    /\ nreq' = nreq + 1
    /\ answer' = NoAnswer
    /\ UNCHANGED <<apiKey, usedIds, aiCall, task_list_mapping, reactions>>

\* The service called with any of the three status values.
UpdateTaskStatus(s) ==
    \E id_prefix \in Prefixes, status \in Statuses, action_taken \in Notes :
      update_task_status(s, "update_task_status", id_prefix, status,
                         action_taken)

\* /task-done (cogs/declutter.py:373-398)
MarkDone(s) ==
    \E task_id \in Prefixes, note \in Notes :
      update_task_status(s, "task_done", task_id, "done", note)

\* /task-dismiss (cogs/declutter.py:405-430)
DismissTask(s) ==
    \E task_id \in Prefixes, reason \in Notes :
      update_task_status(s, "task_dismiss", task_id, "dismissed", reason)

\* /task-delete: delete_task (declutter.py:89-96); False leaves the scope at
\* once.
DeleteTask(s) ==
    /\ sess[s].pc = "idle"
    /\ nreq < MaxTaskReqs
    /\ \E task_id \in Prefixes :
         LET r == [IdleSess EXCEPT !.op = "task_delete"]
             task == scalar_one_or_none(TasksByPrefix(s, task_id)) IN
         IF task.exc # "" THEN Raises(s, r, task_id, task.exc)
         ELSE IF task.val = None
         THEN /\ sess' = [sess EXCEPT ![s] = IdleSess]
              /\ db' = Committed(s)
              /\ last' = Seen(r.op, task_id, NoItem, "notfound")
         ELSE /\ sess' = [sess EXCEPT ![s] =
                    [r EXCEPT !.item = task.val.id,
                              !.del_tasks = {task.val.id},
                              !.pc = "commit"]]
              /\ db' = db
              /\ last' = Seen(r.op, task_id, task.val.id, "found")
    /\ nreq' = nreq + 1
    /\ answer' = NoAnswer
    /\ UNCHANGED <<apiKey, usedIds, aiCall, task_list_mapping, reactions>>

\* The ten number emojis, and the limits of /tasks.
NUMBER_EMOJIS == <<"1", "2", "3", "4", "5", "6", "7", "8", "9", "10">>

ListLimits == {-1, 0, 1, 10, 11}

\* /tasks (cogs/declutter.py:131-210): the newest tasks of the status are
\* sent in a message, the ids of the tasks listed are kept under the id of
\* that message, and then the bot adds its number reactions one by one.
\* Message 0 stands for every message that is not a task list.
ListTasks(s) ==
    /\ sess[s].pc = "idle"
    /\ Len(task_list_mapping) < MaxLists
    /\ \E status \in {"all"} \cup Statuses, limit \in ListLimits :
         LET reply == [fn |-> "list_tasks"]
             \* "limit = min(limit, 10)"
             most == IF limit < Len(NUMBER_EMOJIS) THEN limit
                     ELSE Len(NUMBER_EMOJIS) IN
         IF most < 0
         THEN /\ answer' = reply @@ [out |-> Raise("DataError")]
              /\ UNCHANGED <<task_list_mapping, sess>>
         ELSE \E rows \in NewestFirst(
                  {r \in ViewTasks(s) : status = "all" \/ r.status = status}) :
                LET listed == Take(rows, most)
                    task_ids == [n \in DOMAIN listed |-> listed[n].id] IN
                IF listed = <<>>
                THEN /\ answer' = reply @@ [out |-> Return(<<>>)]
                     /\ UNCHANGED <<task_list_mapping, sess>>
                ELSE /\ answer' = reply @@ [out |-> Return(listed)]
                     /\ task_list_mapping' =
                           Append(task_list_mapping, task_ids)
                     /\ sess' = [sess EXCEPT ![s] =
                           [IdleSess EXCEPT
                              !.op = "tasks",
                              !.args = <<Len(task_list_mapping) + 1>>,
                              !.todo = [n \in DOMAIN listed |-> n],
                              !.pc = "add_reaction"]]
    /\ UNCHANGED <<apiKey, db, usedIds, nreq, last, aiCall, reactions>>

\* "if payload.user_id == self.bot.user.id: return"
NeverBot(user) == FALSE
IsBot(user) == user = "bot"

\* The early returns of the two listeners and of _handle_reaction
\* (cogs/declutter.py:218-219, 229-230, 242-255).
Ignored(user, message_id, emoji) ==
    \/ IsBot(user)
    \/ message_id \notin DOMAIN task_list_mapping
    \/ \A i \in DOMAIN NUMBER_EMOJIS : NUMBER_EMOJIS[i] # emoji
    \/ \A i \in DOMAIN task_list_mapping[message_id] :
         NUMBER_EMOJIS[i] # emoji

\* "task_id = task_ids[task_index]", the index counted from 1
ListedTask(message_id, emoji) ==
    task_list_mapping[message_id][
        CHOOSE i \in DOMAIN NUMBER_EMOJIS : NUMBER_EMOJIS[i] = emoji]

\* "new_status = 'done' if is_adding else 'pending'"
ReactionStatusUndone(is_adding) == IF is_adding THEN "done" ELSE "undone"
ReactionStatus(is_adding) == IF is_adding THEN "done" ELSE "pending"

\* One turn of "for i in range(len(tasks)): await message.add_reaction(...)"
\* (cogs/declutter.py:205-210), and the event of the reaction added, which
\* on_raw_reaction_add receives: Forbidden ends the loop.
AddReaction(s) ==
    /\ sess[s].pc = "add_reaction"
    /\ LET message_id == sess[s].args[1]
           emoji == NUMBER_EMOJIS[Head(sess[s].todo)]
           rest == Tail(sess[s].todo) IN
       \E forbidden \in BOOLEAN :
         IF forbidden
         THEN /\ sess' = [sess EXCEPT ![s] = IdleSess]
              /\ UNCHANGED <<db, reactions>>
         ELSE /\ sess' = [sess EXCEPT ![s] =
                    IF rest = <<>> THEN IdleSess
                    ELSE [sess[s] EXCEPT !.todo = rest]]
              /\ reactions' = reactions \cup
                    {[message_id |-> message_id, emoji |-> emoji,
                      user |-> "bot"]}
              /\ db' = IF Ignored("bot", message_id, emoji) THEN db
                       ELSE [db EXCEPT !.declutter_tasks =
                               {IF task.id = ListedTask(message_id, emoji)
                                THEN SetStatus(task, ReactionStatus(TRUE))
                                ELSE task : task \in @}]
    /\ UNCHANGED <<apiKey, usedIds, nreq, last, aiCall, answer,
                   task_list_mapping>>

\* The users who react, other than the bot.
Users == {"u1", "u2"}

\* "try: channel = self.bot.get_channel(...); if channel: await
\* channel.send(f'... {item_name} ...') except Exception as e: logger.error":
\* item_name is bound only where the task was found.  The value is the name
\* sent, None where nothing was sent.
send_unguarded(channel, task) ==
    IF ~channel THEN Return(None)
    ELSE IF task = None THEN Raise("UnboundLocalError")
    ELSE Return(task.item_name)
send_notification(channel, task) ==
    IF ~channel THEN Return(None)
    ELSE ExceptReturnNone(IF task = None THEN Raise("UnboundLocalError")
                          ELSE Return(task.item_name))

\* A reaction event of a user (cogs/declutter.py:212-286): a reaction is
\* added where the user has none, removed where the user has one.  Emoji "x"
\* stands for every emoji that is no number, as message 0 stands for every
\* other message: there a user always has a reaction to add and one to
\* remove, and none is recorded.  A task that was found is changed in the
\* scope, which is then left by Commit.
HandleReaction(s) ==
    /\ sess[s].pc = "idle"
    /\ nreq < MaxTaskReqs
    /\ \E user \in Users, message_id \in {0} \cup DOMAIN task_list_mapping,
          emoji \in {"1", "2", "x"}, channel \in BOOLEAN,
          is_adding \in BOOLEAN :
         LET reaction == [message_id |-> message_id, emoji |-> emoji,
                          user |-> user]
             recorded == message_id # 0 /\ emoji # "x"
             r == [IdleSess EXCEPT
                     !.op = IF is_adding THEN "reaction_add"
                            ELSE "reaction_remove",
                     !.args = <<message_id, emoji>>] IN
         /\ recorded => is_adding = (reaction \notin reactions)
         /\ reactions' = IF ~recorded THEN reactions
                         ELSE IF is_adding THEN reactions \cup {reaction}
                         ELSE reactions \ {reaction}
         /\ IF Ignored(user, message_id, emoji)
            THEN /\ sess' = sess
                 /\ db' = db
                 /\ last' = Seen(r.op, NoPrefix, NoItem, "ignored")
            ELSE LET task_id == ListedTask(message_id, emoji)
                     task == scalar_one_or_none(
                                 {q \in ViewTasks(s) : q.id = task_id})
                     sent == send_notification(channel, task.val) IN
                 IF task.val = None
                 THEN IF sent.exc # ""
                      THEN /\ sess' = [sess EXCEPT ![s] = IdleSess]
                           /\ db' = Committed(s)
                           /\ last' = Seen(r.op, NoPrefix, task_id, sent.exc)
                      ELSE /\ sess' = [sess EXCEPT ![s] = IdleSess]
                           /\ db' = Committed(s)
                           /\ last' = Seen(r.op, NoPrefix, task_id,
                                           IF sent.val = None THEN "notfound"
                                           ELSE "ok")
                 ELSE /\ sess' = [sess EXCEPT ![s] =
                            [r EXCEPT !.item = task_id,
                                      !.set_tasks =
                                         {Change(task.val,
                                                 ReactionStatus(is_adding),
                                                 None)},
                                      !.pc = "commit"]]
                      /\ db' = db
                      /\ last' = Seen(r.op, NoPrefix, task_id, "found")
    /\ nreq' = nreq + 1
    /\ answer' = NoAnswer
    /\ UNCHANGED <<apiKey, usedIds, aiCall, task_list_mapping>>

(***************************************************************************)
(* The adapter on its own: one call per step, every provider behaviour.    *)
(***************************************************************************)
CallEmbed ==
    /\ \E resp \in EmbedResponses :
         aiCall' = [fn |-> "embed", resp |-> resp,
                    out |-> generate_embedding(apiKey, resp)]
    /\ UNCHANGED <<apiKey, db, usedIds, sess, nreq, last, answer,
                   task_list_mapping, reactions>>

CallClassify ==
    /\ \E resp \in ClassifyResponses :
         aiCall' = [fn |-> "classify", resp |-> resp,
                    out |-> classify_content(apiKey, resp)]
    /\ UNCHANGED <<apiKey, db, usedIds, sess, nreq, last, answer,
                   task_list_mapping, reactions>>

CallAnalyze ==
    /\ \E resp \in VisionResponses :
         aiCall' = [fn |-> "analyze", resp |-> resp,
                    out |-> analyze_image_for_declutter(apiKey, resp)]
    /\ UNCHANGED <<apiKey, db, usedIds, sess, nreq, last, answer,
                   task_list_mapping, reactions>>

(***************************************************************************)
(* Specifications.                                                         *)
(***************************************************************************)
Init ==
    /\ apiKey \in ApiKeys
    /\ db = EmptyDb
    /\ usedIds = {}
    /\ sess = [s \in Sessions |-> IdleSess]
    /\ nreq = 0
    /\ last = Seen("none", NoPrefix, NoItem, "")
    /\ aiCall = [fn |-> "none"]
    /\ answer = NoAnswer
    /\ task_list_mapping = <<>>
    /\ reactions = {}

Request(s) ==
    \/ Save(s)
    \/ AutoCategorize(s)
    \/ InsertCategory(s)
    \/ LinkCategory(s)
    \/ add_tags(s)
    \/ SelectTag(s)
    \/ InsertTag(s)
    \/ delete_item(s)
    \/ Commit(s)

\* Requests of concurrent sessions, interleaved at their awaited calls.
Next == \E s \in Sessions : Request(s) \/ Fault(s) \/ DeadlockAbort(s)

Spec == Init /\ [][Next]_vars

\* Requests one after another: each ends before the next starts.
NextSeq == Request(1)

SpecSeq == Init /\ [][NextSeq]_vars

\* Requests one after another, with /save-url and the searches.
NextStore ==
    \/ SaveUrl(1)
    \/ AutoCategorize(1)
    \/ InsertCategory(1)
    \/ LinkCategory(1)
    \/ Commit(1)
    \/ semantic_search(1)
    \/ keyword_search(1)

SpecStore == Init /\ [][NextStore]_vars

\* Requests one after another, with /save-url and the export.
NextExport ==
    \/ Request(1)
    \/ SaveUrl(1)
    \/ export_data(1)

SpecExport == Init /\ [][NextExport]_vars

\* The commands and reactions of the declutter cog, one after another.
NextTasks ==
    \/ Declutter(1)
    \/ CreateTask(1)
    \/ ListTasks(1)
    \/ AddReaction(1)
    \/ HandleReaction(1)
    \/ MarkDone(1)
    \/ DismissTask(1)
    \/ DeleteTask(1)
    \/ Commit(1)

SpecTasks == Init /\ [][NextTasks]_vars

\* The two services called one call after another, each in its scope.
NextService ==
    \/ Request(1)
    \/ Declutter(1)
    \/ CreateTask(1)
    \/ UpdateTaskStatus(1)
    \/ DeleteTask(1)

SpecService == Init /\ [][NextService]_vars

\* Status changes of concurrent handlers, interleaved at their awaited
\* calls, on tasks that one /declutter created and one /tasks listed.
NextRace ==
    \/ db.declutter_tasks = {} /\ Declutter(1)
    \/ CreateTask(1)
    \/ ListTasks(1)
    \/ AddReaction(1)
    \/ \E s \in Sessions :
         \/ MarkDone(s)
         \/ DismissTask(s)
         \/ HandleReaction(s)
         \/ Commit(s)

SpecRace == Init /\ [][NextRace]_vars

(***************************************************************************)
(* The bot as it starts (src/bot/main.py).                                 *)
(***************************************************************************)
\* "await self.load_extension(...)" of setup_hook: the cogs it loads.  The
\* setup function of a cog (cogs/declutter.py:503-504) runs only when its
\* extension is loaded.
setup_hook == {"collect", "search", "summary"}

\* The slash commands of the declutter cog.
DeclutterCommands ==
    {"declutter", "tasks", "task_done", "task_dismiss", "task_delete"}

\* A chat command or a reaction event reaches the handlers of a cog that
\* setup_hook loaded.  The commands of a cog that was not loaded are not in
\* the command tree that is synced: such an interaction finds no handler
\* (CommandNotFound), and an event finds no listener.
Interaction(s) ==
    \E cog \in {"collect", "declutter"} :
      IF cog \in setup_hook
      THEN IF cog = "collect" THEN Request(s)
           ELSE \/ Declutter(s) \/ CreateTask(s) \/ ListTasks(s)
                \/ AddReaction(s) \/ HandleReaction(s) \/ MarkDone(s)
                \/ DismissTask(s) \/ DeleteTask(s) \/ Commit(s)
      ELSE /\ nreq < MaxTaskReqs
           /\ \E command \in IF cog = "collect" THEN {"save", "tag", "delete"}
                              ELSE DeclutterCommands :
                last' = Seen(command, NoPrefix, NoItem, "CommandNotFound")
           /\ nreq' = nreq + 1
           /\ UNCHANGED <<apiKey, db, usedIds, sess, aiCall, answer,
                          task_list_mapping, reactions>>

\* The chat commands of one user after another, as the started bot serves
\* them.
NextBot == Interaction(1)

SpecBot == Init /\ [][NextBot]_vars

\* The adapter alone.
NextAI == CallEmbed \/ CallClassify \/ CallAnalyze

SpecAI == Init /\ [][NextAI]_vars

(***************************************************************************)
(* Properties.                                                             *)
(***************************************************************************)
Exceptions ==
    {"IntegrityError", "MissingGreenlet", "OperationalError",
     "DeadlockDetected", "MultipleResultsFound", "APIError", "IndexError",
     "AttributeError"}

ItemIds(store) == {i.id : i \in store.items}

\* The step in which an exception leaves the request scope of session s.
ExceptionLeaves(s) ==
    sess[s].pc # "idle" /\ sess'[s].pc = "idle" /\ last'.result \in Exceptions

\* C1: when an exception leaves a request scope after the request has
\* flushed rows, the committed store is left as it was: it holds neither the
\* item, nor a category or tag the request wrote, nor a link of that item.
C1_RollbackOnException ==
    [][\A s \in Sessions :
         ExceptionLeaves(s) =>
           /\ db' = db
           /\ sess[s].ins_items \cap db'.items = {}
           /\ sess[s].ins_categories \cap db'.categories = {}
           /\ sess[s].ins_tags \cap db'.tags = {}
           /\ sess[s].ins_item_tags \cap db'.item_tags = {}]_vars

\* C1 witness: a /save request has raised after its item (and the category
\* of its label) were flushed, and the store does not hold the item.
C1_Witness ==
    /\ last.op = "save"
    /\ last.result = "MissingGreenlet"
    /\ last.item \notin ItemIds(db)

\* The step in which the request of session s ends, by commit or exception.
RequestEnds(s) == sess[s].pc # "idle" /\ sess'[s].pc = "idle"

\* C2: when a createItem whose classification returned a label ends (the
\* requests running one after another), the store holds exactly one Category
\* row of that name and the item has exactly one ItemCategory link, to it.
C2_OneCategoryPerLabel ==
    [][(RequestEnds(1) /\ sess[1].op = "save" /\ sess[1].label # <<>>) =>
         LET named == {c \in db'.categories : c.name = sess[1].label}
             links == {l \in db'.item_categories : l.item = sess[1].item} IN
         /\ Cardinality(named) = 1
         /\ Cardinality(links) = 1
         /\ \A l \in links : \A c \in named : l.cat = c.id]_vars

\* C3: no two committed Category rows have the same name, and no two
\* committed Tag rows have the same name.
C3_UniqueNames ==
    /\ \A c, d \in db.categories : c.name = d.name => c = d
    /\ \A g, h \in db.tags : g.name = h.name => g = h

\* C3 witness: of two concurrent requests that wrote the same new tag name
\* one was refused, and the store holds the tag.
C3_Witness ==
    /\ last.op = "tag"
    /\ last.result = "IntegrityError"
    /\ db.tags # {}

Range(f) == {f[i] : i \in DOMAIN f}

\* The links of an item to the tags of a given name.
LinksByName(store, item, name) ==
    {l \in store.item_tags :
        l.item = item /\ \E g \in store.tags : g.id = l.tag /\ g.name = name}

\* C4: an addTags request that found its item does not fail, and when it
\* ends the store holds exactly one Tag row per name it was given and exactly
\* one link of the item per such name; if every name was linked before, the
\* store is unchanged (requests one after another).
C4_AddTagsIdempotent ==
    [][(RequestEnds(1) /\ sess[1].op = "tag") =>
         /\ last'.result = "ok"
         /\ \A n \in Range(sess[1].tag_names) :
              /\ Cardinality({g \in db'.tags : g.name = n}) = 1
              /\ Cardinality(LinksByName(db', sess[1].item, n)) = 1
         /\ (\A n \in Range(sess[1].tag_names) :
               LinksByName(db, sess[1].item, n) # {}) => db' = db]_vars

\* C4 witness: an addTags request is about to commit with nothing to write:
\* every name it was given was linked to the item already.
C4_Witness ==
    /\ sess[1].op = "tag"
    /\ sess[1].pc = "commit"
    /\ sess[1].tag_names # <<>>
    /\ sess[1].ins_tags = {}
    /\ sess[1].ins_item_tags \cup sess[1].pend_item_tags = {}

\* C5: the commit of deleteItem removes the item and every ItemCategory and
\* ItemTag row of it, and leaves every Category, every Tag, every other item
\* and every link of other items as they were.
C5_DeleteCascades ==
    [][\A s \in Sessions :
         (RequestEnds(s) /\ sess[s].op = "delete" /\ last'.result = "ok") =>
           /\ db'.items = {i \in db.items : i.id # sess[s].item}
           /\ db'.item_tags = {l \in db.item_tags : l.item # sess[s].item}
           /\ db'.item_categories =
                {l \in db.item_categories : l.item # sess[s].item}
           /\ db'.tags = db.tags
           /\ db'.categories = db.categories]_vars

\* C5 witness: an item that had a tag was deleted; its link is gone and the
\* tag, now linked to no item, is still there.
C5_Witness ==
    /\ last.op = "delete"
    /\ last.result = "ok"
    /\ db.tags # {}
    /\ db.item_tags = {}
    /\ db.items = {}

\* C6: createItem persists its item and reports no error, whatever the
\* provider does (requests one after another).
C6_CreateItemAlwaysPersists ==
    last.op = "save" => (last.result = "ok" /\ last.item \in ItemIds(db))

\* C7: generate_embedding and classify_content never raise: for every
\* provider behaviour they return a value or None.
C7_NeverRaises ==
    aiCall.fn \in {"embed", "classify"} =>
      /\ aiCall.out.exc = ""
      /\ aiCall.out.val.k \in {"none", "vec", "str"}

\* C7 witness: the client call raised, with a credential set, and classify
\* returned None.
C7_Witness ==
    /\ aiCall.fn = "classify"
    /\ apiKey # ""
    /\ aiCall.resp.k = "raise"
    /\ aiCall.out = Return(None)

\* The reply of the classification model, trimmed and lower-cased (a reply
\* without text has none).
Normalised(resp) ==
    IF resp.k = "resp" /\ Len(resp.choices) > 0 /\ resp.choices[1].k = "str"
    THEN Lower(Strip(resp.choices[1].s))
    ELSE <<>>

CategoryRows ==
    db.categories \cup UNION {sess[s].ins_categories : s \in Sessions}

\* C8: every label classify returns is in the closed set, a reply that is
\* not in the set (trimmed, lower-cased) gives "other", and every Category
\* row auto-categorization writes has a name of the set.
C8_ClosedSet ==
    /\ \A s \in Sessions :
         sess[s].label # <<>> =>
           /\ sess[s].label \in valid_categories
           /\ Normalised(sess[s].reply) \notin valid_categories
                => sess[s].label = other
           /\ Normalised(sess[s].reply) \in valid_categories
                => sess[s].label = Normalised(sess[s].reply)
    /\ \A c \in CategoryRows : c.name \in valid_categories

\* C8 witness: a reply out of the set was coerced, and the request wrote
\* the Category row "other".
C8_Witness ==
    \E s \in Sessions :
      /\ sess[s].pc = "link_category"
      /\ sess[s].reply = ChatReply(<<"s","p","o","r","t">>)
      /\ \E c \in sess[s].ins_categories : c.name = other

\* C9: analyze_image_for_declutter never raises; it returns an error or a
\* success with a non-empty list of items; an empty credential or a failed
\* call gives an error; a reply that is no JSON gives a success with one
\* item, whose decision is "consider".
C9_AnalyzeOutcomes ==
    aiCall.fn = "analyze" =>
      /\ aiCall.out.exc = ""
      /\ \/ aiCall.out.val.k = "error"
         \/ /\ aiCall.out.val.k = "success"
            /\ aiCall.out.val.items.k = "list"
            /\ Len(aiCall.out.val.items.elems) >= 1
      /\ (apiKey = "" \/ aiCall.resp.k = "raise")
           => aiCall.out.val.k = "error"
      /\ ( /\ apiKey # ""
           /\ aiCall.resp.k = "resp"
           /\ Len(aiCall.resp.choices) > 0
           /\ aiCall.resp.choices[1].k = "content"
           /\ aiCall.resp.choices[1].body.k = "text" )
           => /\ aiCall.out.val.k = "success"
              /\ aiCall.out.val.items.k = "list"
              /\ Len(aiCall.out.val.items.elems) = 1
              /\ aiCall.out.val.items.elems[1].f.decision = JStr("consider")

\* The id text s starts with the text p.
StartsWith(s, p) == Len(p) <= Len(s) /\ SubSeq(s, 1, Len(p)) = p

\* C10: a lookup by id prefix finds the one stored item whose id starts
\* with the prefix, and finds nothing when no stored id starts with it
\* (requests one after another).
C10_PrefixResolution ==
    last.prefix # NoPrefix =>
      LET starts == {i \in db.items : StartsWith(i.id, last.prefix)} IN
      /\ starts = {} => last.result = "notfound"
      /\ Cardinality(starts) = 1 =>
           (last.result = "found" /\ \A i \in starts : last.item = i.id)

\* C11: a lookup whose prefix more than one stored id starts with does not
\* fail: it finds one of those rows and the operation goes on with it
\* (requests one after another).
C11_AmbiguousPrefixProceeds ==
    last.prefix # NoPrefix =>
      LET starts == {i \in db.items : StartsWith(i.id, last.prefix)} IN
      Cardinality(starts) > 1 =>
        (last.result = "found" /\ \E i \in starts : last.item = i.id)

\* The step of a search or an export: a request that only reads.
ReadStep(fn) == nreq' = nreq + 1 /\ sess' = sess /\ answer'.fn = fn

ItemById(store, id) == CHOOSE i \in store.items : i.id = id

SameNumber(x, y) == ~Closer(x, y) /\ ~Closer(y, x)

\* C13: the score of every pair semantic_search returns is 1 - d, d the
\* cosine distance of the item's embedding to the query's, also for d = 0.
C13_ScoreIsOneMinusDistance ==
    [][(ReadStep("semantic_search") /\ answer'.out.exc = "") =>
         \A n \in DOMAIN answer'.out.val :
            SameNumber(answer'.out.val[n].score,
                       Cosine(cosine_distance(
                          ItemById(db, answer'.out.val[n].item).embedding.v,
                          answer'.query_embedding.v)))]_vars

\* keyword occurs in text as a literal substring.
Contains(text, keyword) ==
    \E i \in 0..(Len(text) - Len(keyword)) :
        SubSeq(text, i + 1, i + Len(keyword)) = keyword

\* C14: keyword_search returns, newest first, the up to limit newest of
\* exactly the items whose content contains the keyword as a literal
\* substring, case ignored, for every keyword.
C14_KeywordSearchLiteral ==
    [][(ReadStep("keyword_search") /\ answer'.out.exc = "") =>
         LET a == answer'
             hits == {i \in db.items :
                        Contains(Lower(i.content), Lower(a.keyword))} IN
         \E o \in NewestFirst(hits) :
            a.out.val = [n \in DOMAIN Take(o, a.limit) |-> o[n].id]]_vars

\* C18: every /save-url ends without an error and stores exactly one new
\* item, of content_type "url" and with the url it was given, whatever the
\* fetch of the page gave; when the fetch failed, url_title and
\* url_description are null and the content is the url and a newline.
C18_UrlItemAlwaysCreated ==
    [][(RequestEnds(1) /\ sess[1].op = "save_url") =>
         /\ last'.result = "ok"
         /\ \E i \in db'.items :
              /\ db'.items = db.items \cup {i}
              /\ i \notin db.items
              /\ i.content_type = "url"
              /\ i.url = Str(sess[1].args[1])
              /\ sess[1].args[2] # "html" =>
                   /\ i.url_title = None
                   /\ i.url_description = None
                   /\ i.content = sess[1].args[1] \o <<"\n">>]_vars

\* json.loads of the text of a string: the inverse of the escapes.
RECURSIVE JsonUnescape(_)
JsonUnescape(s) ==
    IF s = <<>> THEN <<>>
    ELSE IF Head(s) = "\\" /\ Len(s) >= 2
    THEN <<(IF s[2] = "n" THEN "\n" ELSE IF s[2] = "t" THEN "\t" ELSE s[2])>>
           \o JsonUnescape(Tail(Tail(s)))
    ELSE <<Head(s)>> \o JsonUnescape(Tail(s))

\* The names a parsed list of strings holds.
ParsedNames(list) ==
    {JsonUnescape(list.elems[n].s)[1] : n \in DOMAIN list.elems}

CategoryNamesOf(store, id) ==
    {c.name : c \in {c \in store.categories :
                       \E l \in store.item_categories :
                          l.item = id /\ l.cat = c.id}}
TagNamesOf(store, id) ==
    {g.name : g \in {g \in store.tags :
                       \E l \in store.item_tags : l.item = id /\ l.tag = g.id}}

\* A parsed record is the stored item.
RecordIs(rec, store, item) ==
    /\ JsonUnescape(rec.f.id.s) = item.id
    /\ JsonUnescape(rec.f.content.s) = item.content
    /\ ParsedNames(rec.f.categories) = CategoryNamesOf(store, item.id)
    /\ ParsedNames(rec.f.tags) = TagNamesOf(store, item.id)

\* C15: for a store of N >= 1 items, parsing the output of
\* export_data('json') gives exactly N records, one per stored item, with the
\* item's id, content, set of category names and set of tag names.
C15_ExportRoundTrip ==
    [][(ReadStep("export_data") /\ answer'.format = "json" /\ db.items # {})
       => /\ answer'.out.exc = ""
          /\ answer'.out.val # None
          /\ LET recs == answer'.out.val.doc.elems IN
             /\ Len(recs) = Cardinality(db.items)
             /\ \A item \in db.items :
                  Cardinality({n \in DOMAIN recs :
                                 RecordIs(recs[n], db, item)}) = 1
             /\ \A n \in DOMAIN recs :
                  \E item \in db.items : RecordIs(recs[n], db, item)]_vars

\* Two items were exported as json, one of them with a line break in its
\* content.
C15_Witness ==
    /\ answer.fn = "export_data"
    /\ answer.format = "json"
    /\ answer.out.val # None
    /\ Len(answer.out.val.doc.elems) = 2
    /\ \E n \in 1..2 : "\n" \in Range(JsonUnescape(
                                  answer.out.val.doc.elems[n].f.content.s))

TaskById(store, id) == CHOOSE r \in store.declutter_tasks : r.id = id

\* The ids of the rows the operation op looks its prefix up in.
LookedUp(op, store) ==
    IF op \in {"tag", "delete"} THEN ItemIds(store)
    ELSE {r.id : r \in store.declutter_tasks}

\* C16: a task is created pending, and update_task_status rejects no
\* transition between pending, done and dismissed: called with a prefix that
\* exactly one task's id starts with, it finds that task, and its request
\* commits the task with the status asked for, whatever the status was.
C16_FreeTransitions ==
    [][/\ \A r \in sess'[1].ins_tasks \ sess[1].ins_tasks :
            r.status = "pending"
       /\ (nreq' = nreq + 1 /\ last'.op = "update_task_status"
             /\ sess'[1].op \in {"none", "update_task_status"}
             /\ Cardinality({r \in db.declutter_tasks :
                               StartsWith(r.id, last'.prefix)}) = 1)
          => /\ last'.result = "found"
             /\ StartsWith(sess'[1].item, last'.prefix)
       /\ (sess[1].op = "update_task_status" /\ sess[1].pc = "commit"
             /\ sess'[1].pc = "idle")
          => /\ last'.result = "ok"
             /\ sess[1].args[1] \in {"pending", "done", "dismissed"}
             /\ TaskById(db', sess[1].item).status = sess[1].args[1]
             /\ {r.id : r \in db'.declutter_tasks}
                  = {r.id : r \in db.declutter_tasks}]_vars

\* C16 witness: update_task_status has taken the change of a done task back
\* to pending, and the request is about to commit it.
C16_Witness ==
    /\ sess[1].op = "update_task_status"
    /\ sess[1].pc = "commit"
    /\ sess[1].args = <<"pending">>
    /\ \E r \in db.declutter_tasks :
          r.id = sess[1].item /\ r.status \in {"done", "dismissed"}

\* C17: add_tags, delete_item, update_task_status and delete_task, given a
\* prefix that no stored id starts with, answer not-found and leave the
\* store as it was; add_tags writes no Tag row.
C17_NotFoundIsNoOp ==
    [][(nreq' = nreq + 1
          /\ last'.op \in {"tag", "delete", "update_task_status",
                           "task_delete"}
          /\ sess'[1].op \in {"none", last'.op}
          /\ \A id \in LookedUp(last'.op, db) : ~StartsWith(id, last'.prefix))
       => /\ last'.result = "notfound"
          /\ db' = db
          /\ sess'[1] = IdleSess]_vars

\* C19: every task /declutter has stored holds one of the three decisions.
C19_DecisionInEnum ==
    \A r \in db.declutter_tasks : r.decision \in {"keep", "consider", "discard"}

\* C20: every stored task has status pending, done or dismissed, and a task
\* has status pending when it is created (commands and reactions in any
\* order).
C20_StatusInEnum ==
    [][/\ \A r \in db'.declutter_tasks :
            /\ r.status \in {"pending", "done", "dismissed"}
            /\ r.id \notin {q.id : q \in db.declutter_tasks}
                 => r.status = "pending"
       /\ \A r \in sess'[1].ins_tasks \ sess[1].ins_tasks :
            r.status = "pending"]_vars

\* C20 witness: a reaction added to a list message has marked a task done.
C20_Witness ==
    /\ last.op = "reaction_add"
    /\ last.result = "ok"
    /\ \E r \in db.declutter_tasks : r.id = last.item /\ r.status = "done"

(***************************************************************************)
(* C21: two concurrent requests that update the status of one task (task-   *)
(* done, task-dismiss, reaction toggle) both commit without error, and      *)
(* after the commit of each the task has the status that request asked for: *)
(* the final status is that of the request that commits last.               *)
(***************************************************************************)
C21_LastCommitWins ==
    [][\A s \in Sessions :
         (sess[s].pc = "commit" /\ sess[s].set_tasks # {}
            /\ sess'[s].pc = "idle")
         => /\ last'.result = "ok"
            /\ \A c \in sess[s].set_tasks :
                 \E task \in db'.declutter_tasks :
                   task.id = c.id /\ task.status = c.status]_vars

(***************************************************************************)
(* C22: a number emoji added by a user other than the bot on a tracked      *)
(* message sets the task at that position to done, and removing it sets it  *)
(* to pending, whatever the status was; no other task changes.  A reaction  *)
(* on another message, with another emoji, or with a number beyond the      *)
(* tasks listed changes nothing.                                            *)
(***************************************************************************)
ReactionOps == {"reaction_add", "reaction_remove"}

\* A step that handles a reaction event, up to the end of the scope's body.
ReactionStep ==
    /\ nreq' = nreq + 1
    /\ last'.op \in ReactionOps
    /\ \A s \in Sessions : sess'[s].pc \in {"idle", "commit"}

\* C22: a reaction event changes nothing before its commit and reaches the
\* commit only for a listed, stored task; its commit sets that task to done
\* (added) or pending (removed) and changes no other task.
C22_ReactionToggles ==
    [][/\ ReactionStep
          => /\ db' = db
             /\ LET new == (reactions' \ reactions) \cup
                           (reactions \ reactions') IN
                IF new = {} THEN sess'[1].pc = "idle"
                ELSE \A e \in new :
                       LET ids == task_list_mapping[e.message_id]
                           i == CHOOSE n \in DOMAIN NUMBER_EMOJIS :
                                  NUMBER_EMOJIS[n] = e.emoji IN
                       IF /\ i <= Len(ids)
                          /\ \E task \in db.declutter_tasks :
                               task.id = ids[i]
                       THEN /\ sess'[1].pc = "commit"
                            /\ sess'[1].item = ids[i]
                            /\ sess'[1].op = IF e \in reactions'
                                             THEN "reaction_add"
                                             ELSE "reaction_remove"
                       ELSE sess'[1].pc = "idle"
       /\ (sess[1].pc = "commit" /\ sess[1].op \in ReactionOps
            /\ sess'[1].pc = "idle")
          => db'.declutter_tasks =
                {IF task.id = sess[1].item
                 THEN [task EXCEPT !.status =
                         IF sess[1].op = "reaction_add" THEN "done"
                         ELSE "pending"]
                 ELSE task : task \in db.declutter_tasks}]_vars

\* A reaction made a task done that /task-done or /task-dismiss had handled
\* with a note before, and left another task pending.
C22_Witness ==
    /\ last.op = "reaction_add"
    /\ last.result = "ok"
    /\ \E task \in db.declutter_tasks :
         /\ task.id = last.item
         /\ task.status = "done"
         /\ task.action_taken = Str(<<"n">>)
    /\ \E task \in db.declutter_tasks :
         task.id # last.item /\ task.status = "pending"

C24_DeclutterAllOrNothing ==
    [][/\ (last'.op = "declutter" /\ last' # last
            /\ last'.result \in {"noimage", "error", "noitems"})
          => db' = db /\ sess' = sess
       /\ \A s \in Sessions :
            /\ (sess[s].op # "declutter" /\ sess'[s].op = "declutter")
               => /\ sess'[s].ins_tasks = {}
                  /\ sess'[s].todo # <<>>
                  /\ db' = db
            /\ (sess[s].op = "declutter" /\ sess'[s].op = "declutter")
               => /\ Cardinality(sess'[s].ins_tasks) + Len(sess'[s].todo)
                       = Cardinality(sess[s].ins_tasks) + Len(sess[s].todo)
                  /\ db' = db
            /\ (sess[s].op = "declutter" /\ sess'[s].op # "declutter")
               => IF last'.result = "ok"
                  THEN /\ sess[s].todo = <<>>
                       /\ db'.declutter_tasks =
                             db.declutter_tasks \cup sess[s].ins_tasks
                       /\ db.declutter_tasks \cap sess[s].ins_tasks = {}
                       /\ \A task \in sess[s].ins_tasks :
                            /\ task.status = "pending"
                            /\ task.image_url = sess[s].args[1]
                            /\ task.source_message_id = sess[s].args[2]
                  ELSE db' = db]_vars

\* A /declutter over two items has committed: its two tasks are stored.
C24_Witness ==
    /\ last.op = "declutter"
    /\ last.result = "ok"
    /\ \E t1, t2 \in db.declutter_tasks :
         /\ t1.id # t2.id
         /\ t1.source_message_id = t2.source_message_id
         /\ t1.image_url = t2.image_url

(***************************************************************************)
(* C25: of two concurrent requests that create a row of the same new name   *)
(* (the category of createItem, a tag of addTags) neither fails: no request *)
(* that is about to insert a category or a tag ends with an error of the    *)
(* unique constraint or of a deadlock.                                      *)
(***************************************************************************)
C25_ConcurrentSameNameSucceeds ==
    [][\A s \in Sessions :
         (sess[s].pc \in {"insert_category", "insert_tag"}
            /\ sess'[s].pc = "idle")
         => last'.result \notin {"IntegrityError", "DeadlockDetected"}]_vars

(***************************************************************************)
(* C26: after every reaction event of a user on the number of a listed      *)
(* task, once its change is committed, the task is done exactly when a      *)
(* reaction of some user other than the bot is still present on that       *)
(* number of that message, and pending exactly when none is.                *)
(***************************************************************************)
C26_DoneIffReactionPresent ==
    [][(sess[1].pc = "commit" /\ sess[1].op \in ReactionOps
          /\ sess'[1].pc = "idle" /\ last'.result = "ok")
       => LET present ==
                  \E r \in reactions' :
                    /\ r.message_id = sess[1].args[1]
                    /\ r.emoji = sess[1].args[2]
                    /\ ~IsBot(r.user) IN
          \A task \in db'.declutter_tasks :
            task.id = sess[1].item
            => /\ (task.status = "done") = present
               /\ (task.status = "pending") = ~present]_vars

(***************************************************************************)
(* C27: confirmation follows commit.  The command layer sees a request end  *)
(* well, which is where it sends its success message, only in the step in   *)
(* which the scope of that request commits what the request wrote; and a    *)
(* request whose commit raises does not end well.                           *)
(***************************************************************************)
C27_ConfirmationFollowsCommit ==
    [][/\ (last' # last /\ last'.result = "ok")
          => \E s \in Sessions :
               /\ sess[s].pc = "commit"
               /\ sess[s].op = last'.op
               /\ sess'[s].pc = "idle"
               /\ ~LinkViolation(s)
               /\ db' = Committed(s)
       /\ \A s \in Sessions :
            (sess[s].pc = "commit" /\ sess'[s].pc = "idle"
               /\ (LinkViolation(s) \/ db' # Committed(s)))
            => last'.result \in Exceptions]_vars

\* One /tag has ended well, and the commit of another, concurrent one is
\* about to raise.
C27_Witness ==
    /\ last.op = "tag"
    /\ last.result = "ok"
    /\ \E s \in Sessions :
         sess[s].pc = "commit" /\ LinkViolation(s) /\ ~Blocked(s)

(***************************************************************************)
(* C28: a delete_item or delete_task removes at most one row, and the id of *)
(* the row it removes starts, as a text, with the prefix it was given, for  *)
(* every prefix, the empty one and those holding % or _ included.           *)
(***************************************************************************)
C28_DeleteOneRowOfPrefix ==
    [][(sess[1].pc = "commit" /\ sess[1].op \in {"delete", "task_delete"}
          /\ sess'[1].pc = "idle")
       => LET removed == (ItemIds(db) \ ItemIds(db')) \cup
                         ({r.id : r \in db.declutter_tasks} \
                            {r.id : r \in db'.declutter_tasks}) IN
          /\ Cardinality(removed) <= 1
          /\ \A id \in removed : StartsWith(id, last.prefix)]_vars

(***************************************************************************)
(* C29: a stale list entry is harmless.  A reaction of a user on the number *)
(* of a listed task that is no longer stored is handled without an          *)
(* exception, changes no task and sends no notification.                    *)
(***************************************************************************)
C29_StaleEntryHarmless ==
    [][ReactionStep
       => \A e \in (reactions' \ reactions) \cup (reactions \ reactions') :
            LET ids == task_list_mapping[e.message_id]
                i == CHOOSE n \in DOMAIN NUMBER_EMOJIS :
                       NUMBER_EMOJIS[n] = e.emoji IN
            (i <= Len(ids) /\ \A task \in db.declutter_tasks : task.id # ids[i])
            => /\ last'.result = "notfound"
               /\ last'.item = ids[i]
               /\ db' = db
               /\ sess' = sess]_vars

\* A user has reacted on the number of a listed task that was deleted.
C29_Witness ==
    /\ last.op = "reaction_add"
    /\ last.result = "notfound"
    /\ \E r \in reactions :
         /\ ~IsBot(r.user)
         /\ \E i \in DOMAIN task_list_mapping[r.message_id] :
              /\ NUMBER_EMOJIS[i] = r.emoji
              /\ task_list_mapping[r.message_id][i] = last.item
    /\ \A task \in db.declutter_tasks : task.id # last.item

(***************************************************************************)
(* C30: after the bot has started, the commands of the declutter cog are    *)
(* registered: no /declutter, /tasks, /task-done, /task-dismiss or          *)
(* /task-delete of a user is left without a handler.                        *)
(***************************************************************************)
C30_DeclutterCommandsRegistered ==
    last.op \in DeclutterCommands => last.result # "CommandNotFound"

====
